---- MODULE Spec2Model ----
(***************************************************************************)
(* Model of the calendar status engine of the dashboard:                   *)
(*   calendar_event.py    CalendarEvent (parse, is_valid, get_status)      *)
(*   calendar_manager.py  CalendarManager (_fetch_from_api,                *)
(*                        _resolve_status_for_calendar, check_status)      *)
(*   dashboard_server.py  calendar_poller_in_background, the routes and    *)
(*                        the wake event                                   *)
(* Time is an integer number of abstract ticks.  The durations of the      *)
(* program are scaled down to a few ticks.  Those of the manager (1        *)
(* microsecond, minutes of the windows, 12 h fetch interval, 365 day       *)
(* horizon) keep their order, and so do those of the server (1 s minimum   *)
(* sleep, 30 s refresh cooldown, 60 s default sleep, 1 h cap, below the    *)
(* 365 day horizon); the fetch interval is shorter than the cap in ticks.  *)
(***************************************************************************)
EXTENDS Integers, Sequences, FiniteSets, TLC

(* ------------------------------ bounds --------------------------------- *)
\* number of clock ticks the model lets pass after start-up
MaxTicks == 1
\* number of check_status calls the threads make in all
MaxCalls == 2
\* longest event list given to the aggregator in the aggregator specification
MaxEvents == 2
\* number of instants after the epoch used by the aggregator specification
MaxTime == 5
\* number of clock ticks the scheduler specification lets pass after start-up
MaxElapse == 3

(* --------------------------- program constants ------------------------- *)
\* datetime(1970, 1, 1, tzinfo=pytz.utc): the distant past
Epoch == 0
\* None, where the code has an optional datetime
NoTime == -1
\* config.CALENDAR_MAX_FETCH_INTERVAL_SECONDS (12 hours, scaled)
CALENDAR_MAX_FETCH_INTERVAL_SECONDS == 2
\* timedelta(days=365) (scaled: longer than the fetch interval)
HorizonDays == 6
\* timedelta(microseconds=1)
Microsecond == 1
\* config_item.get('pending_minutes', 15) (scaled)
DefaultPendingMinutes == 1
\* config_item.get('prepare_minutes', 60) (scaled)
DefaultPrepareMinutes == 2

\* config.CALENDAR_MIN_REFRESH_INTERVAL (30 seconds, scaled)
CALENDAR_MIN_REFRESH_INTERVAL == 2
\* MIN_SLEEP = 1 of calendar_poller_in_background (1 second, scaled)
MIN_SLEEP == 1
\* DEFAULT_SLEEP = 60 (scaled: between the refresh cooldown and the cap)
DEFAULT_SLEEP == 3
\* the cap of "sleep_time = min(sleep_time, 3600)" (scaled)
SleepCap == 4

\* The process starts long after the epoch: the raw cache is stale at start.
StartTime == Epoch + CALENDAR_MAX_FETCH_INTERVAL_SECONDS + 1
MaxClock == StartTime + MaxTicks

\* a priority map with the numbers of BUSY and PENDING exchanged
PRIORITY_MAP_swapped(status) ==
    CASE status = "BUSY" -> 2
      [] status = "PENDING" -> 3
      [] status = "PREPARE" -> 1
      [] status = "FREE" -> 0
      [] OTHER -> 0 - 1

\* self.PRIORITY_MAP.get(status, -1)
PRIORITY_MAP(status) ==
    CASE status = "BUSY" -> 3
      [] status = "PENDING" -> 2
      [] status = "PREPARE" -> 1
      [] status = "FREE" -> 0
      [] status = "ERROR" -> 0 - 1
      [] OTHER -> 0 - 1

(* config.CALENDAR_CONFIGS: two calendars, one of them with a PREPARE      *)
(* status and a prepare window longer than its pending window.  A config   *)
(* item is a record; has_pending / has_prepare say whether the keys        *)
(* 'pending_minutes' / 'prepare_minutes' are present.                      *)
CALENDAR_CONFIGS ==
    << [id |-> "primary", has_pending |-> TRUE, pending_minutes |-> 1,
        has_prepare |-> FALSE, prepare_minutes |-> 0,
        statuses |-> {"FREE", "PENDING", "BUSY", "ERROR"}],
       [id |-> "medical", has_pending |-> TRUE, pending_minutes |-> 1,
        has_prepare |-> TRUE, prepare_minutes |-> 2,
        statuses |-> {"FREE", "PREPARE", "PENDING", "BUSY", "ERROR"}] >>

CalendarIds == {CALENDAR_CONFIGS[i].id : i \in DOMAIN CALENDAR_CONFIGS}

(* ----------------------------- CalendarEvent --------------------------- *)
(* A raw event carries an optional 'dateTime' for start and for end;       *)
(* NoTime stands for an absent key, an all-day event or a string that      *)
(* datetime.fromisoformat rejects.                                         *)
\* CalendarEvent._parse_times: both present -> both parsed, else both None
parse_times(api_data) ==
    IF api_data.start # NoTime /\ api_data.end # NoTime
    THEN [start |-> api_data.start, end |-> api_data.end]
    ELSE [start |-> NoTime, end |-> NoTime]

\* CalendarEvent.is_valid
is_valid(event) == event.start # NoTime /\ event.end # NoTime

\* a classification that is BUSY only strictly after the start
get_status_busy_strict(event, now_utc, pending_delta, prepare_delta, has_prepare_status) ==
    IF ~is_valid(event)
    THEN [status |-> "FREE", transition |-> NoTime]
    ELSE IF event.start < now_utc /\ now_utc < event.end
    THEN [status |-> "BUSY", transition |-> event.end + Microsecond]
    ELSE IF event.start - pending_delta <= now_utc /\ now_utc < event.start
    THEN [status |-> "PENDING", transition |-> event.start]
    ELSE IF has_prepare_status /\ prepare_delta > pending_delta
            /\ event.start - prepare_delta <= now_utc
            /\ now_utc < event.start - pending_delta
    THEN [status |-> "PREPARE", transition |-> event.start - pending_delta]
    ELSE IF has_prepare_status /\ prepare_delta > pending_delta
            /\ event.start > now_utc
    THEN [status |-> "FREE", transition |-> event.start - prepare_delta]
    ELSE IF event.start > now_utc
    THEN [status |-> "FREE", transition |-> event.start - pending_delta]
    ELSE [status |-> "FREE", transition |-> NoTime]

\* a classification whose pending window is open at its early end
get_status_pending_strict(event, now_utc, pending_delta, prepare_delta, has_prepare_status) ==
    IF ~is_valid(event)
    THEN [status |-> "FREE", transition |-> NoTime]
    ELSE IF event.start <= now_utc /\ now_utc < event.end
    THEN [status |-> "BUSY", transition |-> event.end + Microsecond]
    ELSE IF event.start - pending_delta < now_utc /\ now_utc < event.start
    THEN [status |-> "PENDING", transition |-> event.start]
    ELSE IF has_prepare_status /\ prepare_delta > pending_delta
            /\ event.start - prepare_delta <= now_utc
            /\ now_utc < event.start - pending_delta
    THEN [status |-> "PREPARE", transition |-> event.start - pending_delta]
    ELSE IF has_prepare_status /\ prepare_delta > pending_delta
            /\ event.start > now_utc
    THEN [status |-> "FREE", transition |-> event.start - prepare_delta]
    ELSE IF event.start > now_utc
    THEN [status |-> "FREE", transition |-> event.start - pending_delta]
    ELSE [status |-> "FREE", transition |-> NoTime]

\* a classification whose PREPARE lasts until the start of the event
get_status_prepare_to_start(event, now_utc, pending_delta, prepare_delta, has_prepare_status) ==
    IF ~is_valid(event)
    THEN [status |-> "FREE", transition |-> NoTime]
    ELSE IF event.start <= now_utc /\ now_utc < event.end
    THEN [status |-> "BUSY", transition |-> event.end + Microsecond]
    ELSE IF event.start - pending_delta <= now_utc /\ now_utc < event.start
    THEN [status |-> "PENDING", transition |-> event.start]
    ELSE IF has_prepare_status /\ prepare_delta > pending_delta
            /\ event.start - prepare_delta <= now_utc
            /\ now_utc < event.start - pending_delta
    THEN [status |-> "PREPARE", transition |-> event.start]
    ELSE IF has_prepare_status /\ prepare_delta > pending_delta
            /\ event.start > now_utc
    THEN [status |-> "FREE", transition |-> event.start - prepare_delta]
    ELSE IF event.start > now_utc
    THEN [status |-> "FREE", transition |-> event.start - pending_delta]
    ELSE [status |-> "FREE", transition |-> NoTime]

\* a classification that waits for the pending window even with a PREPARE one
get_status_free_to_pending(event, now_utc, pending_delta, prepare_delta, has_prepare_status) ==
    IF ~is_valid(event)
    THEN [status |-> "FREE", transition |-> NoTime]
    ELSE IF event.start <= now_utc /\ now_utc < event.end
    THEN [status |-> "BUSY", transition |-> event.end + Microsecond]
    ELSE IF event.start - pending_delta <= now_utc /\ now_utc < event.start
    THEN [status |-> "PENDING", transition |-> event.start]
    ELSE IF has_prepare_status /\ prepare_delta > pending_delta
            /\ event.start - prepare_delta <= now_utc
            /\ now_utc < event.start - pending_delta
    THEN [status |-> "PREPARE", transition |-> event.start - pending_delta]
    ELSE IF event.start > now_utc
    THEN [status |-> "FREE", transition |-> event.start - pending_delta]
    ELSE [status |-> "FREE", transition |-> NoTime]

\* a classification that reports an event without times as an error
get_status_invalid_error(event, now_utc, pending_delta, prepare_delta, has_prepare_status) ==
    IF ~is_valid(event)
    THEN [status |-> "ERROR", transition |-> NoTime]
    ELSE IF event.start <= now_utc /\ now_utc < event.end
    THEN [status |-> "BUSY", transition |-> event.end + Microsecond]
    ELSE IF event.start - pending_delta <= now_utc /\ now_utc < event.start
    THEN [status |-> "PENDING", transition |-> event.start]
    ELSE IF has_prepare_status /\ prepare_delta > pending_delta
            /\ event.start - prepare_delta <= now_utc
            /\ now_utc < event.start - pending_delta
    THEN [status |-> "PREPARE", transition |-> event.start - pending_delta]
    ELSE IF has_prepare_status /\ prepare_delta > pending_delta
            /\ event.start > now_utc
    THEN [status |-> "FREE", transition |-> event.start - prepare_delta]
    ELSE IF event.start > now_utc
    THEN [status |-> "FREE", transition |-> event.start - pending_delta]
    ELSE [status |-> "FREE", transition |-> NoTime]

\* a classification that takes the prepare window whenever the status map
\* has PREPARE, however short the window is
get_status_prepare_unchecked(event, now_utc, pending_delta, prepare_delta, has_prepare_status) ==
    IF ~is_valid(event)
    THEN [status |-> "FREE", transition |-> NoTime]
    ELSE IF event.start <= now_utc /\ now_utc < event.end
    THEN [status |-> "BUSY", transition |-> event.end + Microsecond]
    ELSE IF event.start - pending_delta <= now_utc /\ now_utc < event.start
    THEN [status |-> "PENDING", transition |-> event.start]
    ELSE IF has_prepare_status
            /\ event.start - prepare_delta <= now_utc
            /\ now_utc < event.start - pending_delta
    THEN [status |-> "PREPARE", transition |-> event.start - pending_delta]
    ELSE IF has_prepare_status /\ event.start > now_utc
    THEN [status |-> "FREE", transition |-> event.start - prepare_delta]
    ELSE IF event.start > now_utc
    THEN [status |-> "FREE", transition |-> event.start - pending_delta]
    ELSE [status |-> "FREE", transition |-> NoTime]

\* CalendarEvent.get_status -> (status, transition_time or None)
get_status(event, now_utc, pending_delta, prepare_delta, has_prepare_status) ==
    IF ~is_valid(event)
    THEN [status |-> "FREE", transition |-> NoTime]
    ELSE IF event.start <= now_utc /\ now_utc < event.end
    THEN [status |-> "BUSY", transition |-> event.end + Microsecond]
    ELSE IF event.start - pending_delta <= now_utc /\ now_utc < event.start
    THEN [status |-> "PENDING", transition |-> event.start]
    ELSE IF has_prepare_status /\ prepare_delta > pending_delta
            /\ event.start - prepare_delta <= now_utc
            /\ now_utc < event.start - pending_delta
    THEN [status |-> "PREPARE", transition |-> event.start - pending_delta]
    ELSE IF has_prepare_status /\ prepare_delta > pending_delta
            /\ event.start > now_utc
    THEN [status |-> "FREE", transition |-> event.start - prepare_delta]
    ELSE IF event.start > now_utc
    THEN [status |-> "FREE", transition |-> event.start - pending_delta]
    ELSE [status |-> "FREE", transition |-> NoTime]

(* ------------------ CalendarManager._resolve_status_for_calendar ------- *)
\* pending_delta = timedelta(minutes=config_item.get('pending_minutes', 15))
pending_delta_of(config_item) ==
    IF config_item.has_pending THEN config_item.pending_minutes
    ELSE DefaultPendingMinutes

\* prepare_delta: the pending delta unless 'PREPARE' is in the status map
prepare_delta_of(config_item) ==
    IF "PREPARE" \in config_item.statuses
    THEN (IF config_item.has_prepare THEN config_item.prepare_minutes
          ELSE DefaultPrepareMinutes)
    ELSE pending_delta_of(config_item)

\* a loop that stops at the first BUSY event, as calendar_poller.py did
RECURSIVE resolve_loop_break(_, _, _, _, _)
resolve_loop_break(events, i, config_item, now_utc, acc) ==
    IF i > Len(events) THEN acc
    ELSE LET event == parse_times(events[i])
         IN IF ~is_valid(event)
            THEN resolve_loop_break(events, i + 1, config_item, now_utc, acc)
            ELSE LET r == get_status(event, now_utc,
                                     pending_delta_of(config_item),
                                     prepare_delta_of(config_item),
                                     "PREPARE" \in config_item.statuses)
                     priority == PRIORITY_MAP(r.status)
                     a1 == IF priority > acc.max_priority
                           THEN [acc EXCEPT !.max_priority = priority,
                                            !.status = r.status]
                           ELSE acc
                     a2 == IF r.transition # NoTime /\ r.transition > now_utc
                              /\ (a1.next_change = NoTime
                                  \/ r.transition < a1.next_change)
                           THEN [a1 EXCEPT !.next_change = r.transition]
                           ELSE a1
                 IN IF r.status = "BUSY" THEN a2
                    ELSE resolve_loop_break(events, i + 1, config_item,
                                            now_utc, a2)

\* One pass of the loop body over events[i..], from the accumulator acc.
RECURSIVE resolve_loop(_, _, _, _, _)
resolve_loop(events, i, config_item, now_utc, acc) ==
    IF i > Len(events) THEN acc
    ELSE LET event == parse_times(events[i])
         IN IF ~is_valid(event)
            THEN resolve_loop(events, i + 1, config_item, now_utc, acc)
            ELSE LET r == get_status(event, now_utc,
                                     pending_delta_of(config_item),
                                     prepare_delta_of(config_item),
                                     "PREPARE" \in config_item.statuses)
                     priority == PRIORITY_MAP(r.status)
                     a1 == IF priority > acc.max_priority
                           THEN [acc EXCEPT !.max_priority = priority,
                                            !.status = r.status]
                           ELSE acc
                     a2 == IF r.transition # NoTime /\ r.transition > now_utc
                              /\ (a1.next_change = NoTime
                                  \/ r.transition < a1.next_change)
                           THEN [a1 EXCEPT !.next_change = r.transition]
                           ELSE a1
                 IN resolve_loop(events, i + 1, config_item, now_utc, a2)

\* _resolve_status_for_calendar -> (status, next_change_time)
resolve_status_for_calendar(events, config_item, now_utc) ==
    LET acc == resolve_loop(events, 1, config_item, now_utc,
                   [status |-> "FREE", max_priority |-> 0,
                    next_change |-> NoTime])
    IN [status |-> acc.status, next_change |-> acc.next_change]

(* ------------------------ CalendarManager.check_status ----------------- *)
\* status_map.get(cal_status, status_map.get('ERROR', {})): which entry of the
\* status map supplies the css class and the text ("" for the empty default)
status_details(config_item, cal_status) ==
    IF cal_status \in config_item.statuses THEN cal_status
    ELSE IF "ERROR" \in config_item.statuses THEN "ERROR"
    ELSE ""

\* events = self._local_event_cache.get(cal_id, [])
cache_get(cache, cal_id) ==
    IF cal_id \in DOMAIN cache THEN cache[cal_id].items ELSE << >>

\* the body of "for item in self.configs" for the i-th config item
resolve_item(cache, i, now_utc) ==
    resolve_status_for_calendar(
        cache_get(cache, CALENDAR_CONFIGS[i].id), CALENDAR_CONFIGS[i], now_utc)

\* a recomputation that skips the calendars without an entry in the raw cache
current_statuses_present(cache, now_utc) ==
    LET present == SelectSeq([i \in DOMAIN CALENDAR_CONFIGS |-> i],
                       LAMBDA i : CALENDAR_CONFIGS[i].id \in DOMAIN cache)
    IN [k \in DOMAIN present |->
          [id |-> CALENDAR_CONFIGS[present[k]].id,
           status |-> resolve_item(cache, present[k], now_utc).status,
           display |-> status_details(CALENDAR_CONFIGS[present[k]],
                          resolve_item(cache, present[k], now_utc).status)]]

\* current_statuses, in configuration order
current_statuses(cache, now_utc) ==
    [i \in DOMAIN CALENDAR_CONFIGS |->
        [id |-> CALENDAR_CONFIGS[i].id,
         status |-> resolve_item(cache, i, now_utc).status,
         display |-> status_details(CALENDAR_CONFIGS[i],
                        resolve_item(cache, i, now_utc).status)]]

\* global_next_change_time: the least per-calendar next change, or None
global_next_change_time(cache, now_utc) ==
    LET changes == {resolve_item(cache, i, now_utc).next_change :
                        i \in DOMAIN CALENDAR_CONFIGS} \ {NoTime}
    IN IF changes = {} THEN NoTime
       ELSE CHOOSE c \in changes : \A d \in changes : c <= d

\* a valid_until that takes the latest per-calendar next change
new_valid_until_latest(cache, now_utc) ==
    LET changes == {resolve_item(cache, i, now_utc).next_change :
                        i \in DOMAIN CALENDAR_CONFIGS} \ {NoTime}
    IN IF changes = {} THEN now_utc + HorizonDays
       ELSE CHOOSE c \in changes : \A d \in changes : c >= d

\* valid_until of the "Update cache" block
new_valid_until(cache, now_utc) ==
    IF global_next_change_time(cache, now_utc) # NoTime
    THEN global_next_change_time(cache, now_utc)
    ELSE now_utc + HorizonDays

(* ------------------------------- state --------------------------------- *)
\* the callers of check_status: the background poller of dashboard_server.py
\* (force_fetch always False) and a request handler (api_refresh_calendar
\* passes True, every other route False)
Threads == {"poller", "handler"}
ForceArgs(t) == IF t = "poller" THEN {FALSE} ELSE BOOLEAN
NoThread == "none"
NoRet == [statuses |-> << >>, next |-> NoTime, some |-> FALSE]

\* the event lists the provider may answer with for a calendar: for the
\* first calendar an event that ended before start-up, or an event two ticks
\* after start-up listed after an all-day event; for the others an event
\* four ticks after start-up
all_day == [start |-> NoTime, end |-> NoTime]
soon == [start |-> StartTime + 2, end |-> StartTime + 3]
later == [start |-> StartTime + 4, end |-> StartTime + 5]
past == [start |-> Epoch + 1, end |-> Epoch + 2]
FetchResults(cal_id) ==
    IF cal_id = CALENDAR_CONFIGS[1].id
    THEN { << past >>, << all_day, soon >> }
    ELSE { << later >> }

VARIABLES
    clock,              \* datetime.now(pytz.utc)
    local_event_cache,  \* self._local_event_cache: id -> [items, fetch]
    last_cache_update,  \* self._last_cache_update
    computed_cache,     \* self._computed_cache: [statuses, valid_until]
    lock,               \* self._lock: the thread holding it, or NoThread
    pc,                 \* where each thread is in check_status
    force_fetch,        \* check_status: the argument of the running call
    now_utc,            \* check_status: its local now_utc
    fetch_now,          \* _fetch_from_api: its local now_utc
    new_cache,          \* _fetch_from_api: its local new_cache
    ret,                \* the value the call returns
    calls,              \* history: number of calls made
    fetches,            \* history: number of fetch cycles started
    installs,           \* history: number of raw caches installed
    computed_from,      \* history: the install the statuses were computed from
    obs,                \* history: what the running call has done so far
    prev,               \* history: the call that returned last
    r_events, r_config, r_now, r_out,  \* the aggregator on its own
    r_class,            \* get_status on one event of the list
    wake,               \* CALENDAR_WAKE_EVENT: its flag
    loop,               \* calendar_poller_in_background: where the loop is
    next_change_time,   \* calendar_poller_in_background: its local
    sleep_time,         \* calendar_poller_in_background: its local
    wait_from,          \* the instant the timed wait was started
    woken_by_event,     \* calendar_poller_in_background: its local
    route,              \* api_refresh_calendar: where the request is
    last_manual_refresh_time,   \* LAST_MANUAL_REFRESH_TIME
    sets_pending,       \* history: set() calls since the last clear()
    absorbed,           \* history: sets_pending at the last clear()
    iter,               \* history: what the loop did since its last wake
    request,            \* api_refresh_calendar: where each request is
    current_time,       \* api_refresh_calendar: its local
    time_since_last_refresh,    \* api_refresh_calendar: its local
    accepted_at,        \* history: current_time of the request accepted last
    last_call           \* history: the check_status call made last

svars == << clock, local_event_cache, last_cache_update, computed_cache, lock,
            pc, force_fetch, now_utc, fetch_now, new_cache, ret,
            calls, fetches, installs, computed_from, obs, prev >>
rvars == << r_events, r_config, r_now, r_out, r_class >>
hvars == << wake, loop, next_change_time, sleep_time, wait_from,
            woken_by_event, route, last_manual_refresh_time, sets_pending,
            absorbed, iter >>
qvars == << request, current_time, time_since_last_refresh, accepted_at,
            last_call >>
vars == << svars, rvars, hvars, qvars >>

(* obs[t], what the running call of thread t has seen and done:            *)
(*   call_index        the number of this call among all calls              *)
(*   valid_at_call     now < valid_until held when the call was entered     *)
(*   installs_at_call  installs, when the call was entered                  *)
(*   last_at_call      _last_cache_update, when the call was entered        *)
(*   attempted         _fetch_from_api was called                           *)
(*   fetch             the number of its fetch cycle among all (0: none)    *)
(*   partial           the fetch raised after a calendar had been listed    *)
(*   installed         the fetch installed its new_cache                    *)
(*   recomputed        the call ran the recomputation                       *)
(*   from              the install its returned statuses were computed from *)
(*   window            the valid_until its returned statuses go with        *)
NoObs == [call_index |-> 0, valid_at_call |-> FALSE, installs_at_call |-> 0,
          last_at_call |-> Epoch, attempted |-> FALSE, fetch |-> 0,
          partial |-> FALSE,
          installed |-> FALSE, recomputed |-> FALSE, from |-> 0,
          window |-> Epoch]
\* prev: the call that returned last, and the count of calls at its return
NoPrev == [some |-> FALSE, force |-> FALSE, ret |-> NoRet, window |-> Epoch,
           installs |-> 0, calls |-> 0]
NoOut == [status |-> "", next_change |-> NoTime]
NoConfig == CALENDAR_CONFIGS[1]
NoClass == [event |-> 0, status |-> "", transition |-> NoTime]
(* iter, what the poller loop did since its timed wait ended last:         *)
(*   woke      a timed wait has ended                                       *)
(*   calls     the check_status calls the loop made since (at most 3)       *)
(*   forced    one of them was made with force_fetch true                   *)
(*   reeval    the statuses the first of them returned                      *)
(*   pushed    a snapshot was emitted since                                 *)
(*   push      the statuses emitted                                         *)
(*   push_call the number, among calls, of the call that returned them      *)
NoIter == [woke |-> FALSE, calls |-> 0, forced |-> FALSE, reeval |-> << >>,
           pushed |-> FALSE, push |-> << >>, push_call |-> 0]

\* CalendarManager.__init__
InitManager ==
    /\ clock = StartTime
    /\ local_event_cache = << >>
    /\ last_cache_update = Epoch
    /\ computed_cache = [statuses |-> << >>, valid_until |-> Epoch]
    /\ lock = NoThread
    /\ pc = [t \in Threads |-> "idle"]
    /\ force_fetch = [t \in Threads |-> FALSE]
    /\ now_utc = [t \in Threads |-> Epoch]
    /\ fetch_now = [t \in Threads |-> Epoch]
    /\ new_cache = [t \in Threads |-> << >>]
    /\ ret = [t \in Threads |-> NoRet]
    /\ calls = 0
    /\ fetches = 0
    /\ installs = 0
    /\ computed_from = 0
    /\ obs = [t \in Threads |-> NoObs]
    /\ prev = NoPrev

\* dashboard_server.py: the module-level globals, the poller thread started
InitServer ==
    /\ wake = FALSE
    /\ loop = "status"
    /\ next_change_time = NoTime
    /\ sleep_time = 0
    /\ wait_from = Epoch
    /\ woken_by_event = FALSE
    /\ route = "idle"
    /\ last_manual_refresh_time = Epoch
    /\ sets_pending = 0
    /\ absorbed = 0
    /\ iter = NoIter

\* the threads that serve requests: none has a request yet
Handlers == {"first", "second"}
\* last_call: the arguments and state check_status saw, and what the fetch did
NoCall == [some |-> FALSE, force_fetch |-> FALSE, now_utc |-> Epoch,
           last_cache_update |-> Epoch, fetch |-> "none"]

InitHandlers ==
    /\ request = [h \in Handlers |-> "idle"]
    /\ current_time = [h \in Handlers |-> Epoch]
    /\ time_since_last_refresh = [h \in Handlers |-> 0]
    /\ accepted_at = [h \in Handlers |-> NoTime]
    /\ last_call = NoCall

InitAggregator ==
    /\ r_events = << >>
    /\ r_config = NoConfig
    /\ r_now = Epoch
    /\ r_out = NoOut
    /\ r_class = NoClass

Init ==
    /\ InitManager
    /\ InitAggregator
    /\ InitServer
    /\ InitHandlers

(* ------------------------------ actions -------------------------------- *)
\* a thread that reads the clock in its next step: datetime.now(pytz.utc) is
\* called on entry of check_status and at the start of _fetch_from_api
reads_clock(t) == (pc[t] = "idle" /\ calls < MaxCalls) \/ pc[t] = "fetch"

\* time passes; a tick that no thread is about to observe is left out, it
\* is the same as a tick taken right before the next read of the clock
Tick ==
    /\ clock < MaxClock
    /\ \E t \in Threads : reads_clock(t)
    /\ clock' = clock + 1
    /\ UNCHANGED << local_event_cache, last_cache_update, computed_cache,
                    lock, pc, force_fetch, now_utc, fetch_now, new_cache, ret,
                    fetches, installs, computed_from, obs, prev, calls, rvars, hvars, qvars >>

\* check_status(force_fetch=f) is entered: now_utc = datetime.now(pytz.utc)
Call(t, f) ==
    /\ pc[t] = "idle"
    /\ calls < MaxCalls
    /\ calls' = calls + 1
    /\ pc' = [pc EXCEPT ![t] = "test"]
    /\ force_fetch' = [force_fetch EXCEPT ![t] = f]
    /\ now_utc' = [now_utc EXCEPT ![t] = clock]
    /\ obs' = [obs EXCEPT ![t] =
                 [NoObs EXCEPT
                    !.call_index = calls + 1,
                    !.valid_at_call = (clock < computed_cache.valid_until),
                    !.installs_at_call = installs,
                    !.last_at_call = last_cache_update]]
    /\ UNCHANGED << clock, local_event_cache, last_cache_update,
                    computed_cache, lock, fetch_now, new_cache, ret,
                    fetches, installs, computed_from, prev, rvars, hvars, qvars >>

\* time_since_last > max_interval, read without the lock
stale(t) == now_utc[t] - last_cache_update > CALENDAR_MAX_FETCH_INTERVAL_SECONDS

\* "if force_fetch or time_since_last > max_interval"
StaleTest(t) ==
    /\ pc[t] = "test"
    /\ pc' = [pc EXCEPT ![t] =
                IF force_fetch[t] \/ stale(t) THEN "fetch" ELSE "check"]
    /\ UNCHANGED << clock, local_event_cache, last_cache_update,
                    computed_cache, lock, force_fetch, now_utc, fetch_now,
                    new_cache, ret, fetches, installs, computed_from, obs,
                    prev, calls, rvars, hvars, qvars >>

\* _fetch_from_api: get_google_service() succeeded, now_utc is read
FetchBegin(t) ==
    /\ pc[t] = "fetch"
    /\ fetches' = fetches + 1
    /\ fetch_now' = [fetch_now EXCEPT ![t] = clock]
    /\ new_cache' = [new_cache EXCEPT ![t] = << >>]
    /\ obs' = [obs EXCEPT ![t].attempted = TRUE,
                          ![t].fetch = fetches + 1]
    /\ pc' = [pc EXCEPT ![t] = "list"]
    /\ UNCHANGED << clock, local_event_cache, last_cache_update,
                    computed_cache, lock, force_fetch, now_utc, ret,
                    installs, computed_from, prev, calls, rvars, hvars, qvars >>

\* the next calendar the loop of _fetch_from_api asks for
next_item(t) == Cardinality(DOMAIN new_cache[t]) + 1
next_id(t) ==
    IF next_item(t) <= Len(CALENDAR_CONFIGS)
    THEN CALENDAR_CONFIGS[next_item(t)].id ELSE ""

\* a fetch that stores each answer in the installed raw cache as it arrives
FetchCalendar_in_place(t, items) ==
    /\ pc[t] = "list"
    /\ next_item(t) <= Len(CALENDAR_CONFIGS)
    /\ new_cache' = [new_cache EXCEPT ![t] =
          [id \in DOMAIN new_cache[t] \cup {next_id(t)}
             |-> IF id \in DOMAIN new_cache[t] THEN new_cache[t][id]
                 ELSE [items |-> items, fetch |-> obs[t].fetch]]]
    /\ local_event_cache' =
          [id \in DOMAIN local_event_cache \cup {next_id(t)}
             |-> IF id = next_id(t)
                 THEN [items |-> items, fetch |-> obs[t].fetch]
                 ELSE local_event_cache[id]]
    /\ pc' = [pc EXCEPT ![t] =
                IF next_item(t) = Len(CALENDAR_CONFIGS) THEN "install"
                ELSE "list"]
    /\ UNCHANGED << clock, last_cache_update, computed_cache, lock,
                    force_fetch, now_utc, fetch_now, ret, fetches, installs,
                    computed_from, obs, prev, calls, rvars, hvars, qvars >>

\* one events().list(...).execute() answers
FetchCalendar(t, items) ==
    /\ pc[t] = "list"
    /\ next_item(t) <= Len(CALENDAR_CONFIGS)
    /\ new_cache' = [new_cache EXCEPT ![t] =
          [id \in DOMAIN new_cache[t] \cup {next_id(t)}
             |-> IF id \in DOMAIN new_cache[t] THEN new_cache[t][id]
                 ELSE [items |-> items, fetch |-> obs[t].fetch]]]
    /\ pc' = [pc EXCEPT ![t] =
                IF next_item(t) = Len(CALENDAR_CONFIGS) THEN "install"
                ELSE "list"]
    /\ UNCHANGED << clock, local_event_cache, last_cache_update,
                    computed_cache, lock, force_fetch, now_utc, fetch_now,
                    ret, fetches, installs, computed_from, obs, prev, calls, rvars, hvars, qvars >>

\* a fetch whose exception is not caught: check_status ends without a result
FetchRaise_propagates(t) ==
    /\ pc[t] \in {"fetch", "list"}
    /\ new_cache' = [new_cache EXCEPT ![t] = << >>]
    /\ fetch_now' = [fetch_now EXCEPT ![t] = Epoch]
    /\ obs' = [obs EXCEPT ![t].attempted = TRUE,
                          ![t].partial = (DOMAIN new_cache[t] # {})]
    /\ pc' = [pc EXCEPT ![t] = "done"]
    /\ UNCHANGED << clock, local_event_cache, last_cache_update,
                    computed_cache, lock, force_fetch, now_utc,
                    ret, fetches, installs, computed_from, prev, calls,
                    rvars, hvars, qvars >>

\* get_google_service() or a list call raises: "except Exception" prints
FetchRaise(t) ==
    /\ pc[t] \in {"fetch", "list"}
    /\ new_cache' = [new_cache EXCEPT ![t] = << >>]
    /\ fetch_now' = [fetch_now EXCEPT ![t] = Epoch]
    /\ obs' = [obs EXCEPT ![t].attempted = TRUE,
                          ![t].partial = (DOMAIN new_cache[t] # {})]
    /\ pc' = [pc EXCEPT ![t] = "check"]
    /\ UNCHANGED << clock, local_event_cache, last_cache_update,
                    computed_cache, lock, force_fetch, now_utc,
                    ret, fetches, installs, computed_from, prev, calls, rvars, hvars, qvars >>

\* "with self._lock:" of _fetch_from_api
AcquireInstall(t) ==
    /\ pc[t] = "install"
    /\ lock = NoThread
    /\ lock' = t
    /\ pc' = [pc EXCEPT ![t] = "installing"]
    /\ UNCHANGED << clock, local_event_cache, last_cache_update,
                    computed_cache, force_fetch, now_utc, fetch_now,
                    new_cache, ret, fetches, installs, computed_from, obs,
                    prev, calls, rvars, hvars, qvars >>

\* an install that leaves the computed cache as it is
invalidated_not(cache) == cache

\* the computed cache after the block under the lock in _fetch_from_api
invalidated(cache) == [cache EXCEPT !.valid_until = Epoch]

\* an install that takes the now_utc of check_status as the refresh time
refreshed_at_entry(t) == now_utc[t]

\* "self._last_cache_update = now_utc", the now_utc of _fetch_from_api
refreshed_at(t) == fetch_now[t]

\* the block under the lock in _fetch_from_api, and the release
Install(t) ==
    /\ pc[t] = "installing"
    /\ lock = t
    /\ local_event_cache' = new_cache[t]
    /\ last_cache_update' = refreshed_at(t)
    /\ computed_cache' = invalidated(computed_cache)
    /\ lock' = NoThread
    /\ installs' = installs + 1
    /\ new_cache' = [new_cache EXCEPT ![t] = << >>]
    /\ fetch_now' = [fetch_now EXCEPT ![t] = Epoch]
    /\ obs' = [obs EXCEPT ![t].installed = TRUE]
    /\ pc' = [pc EXCEPT ![t] = "check"]
    /\ UNCHANGED << clock, force_fetch, now_utc, ret, fetches,
                    computed_from, prev, calls, rvars, hvars, qvars >>

\* "with self._lock:" of the cache check
AcquireCheck(t) ==
    /\ pc[t] = "check"
    /\ lock = NoThread
    /\ lock' = t
    /\ pc' = [pc EXCEPT ![t] = "checking"]
    /\ UNCHANGED << clock, local_event_cache, last_cache_update,
                    computed_cache, force_fetch, now_utc, fetch_now,
                    new_cache, ret, fetches, installs, computed_from, obs,
                    prev, calls, rvars, hvars, qvars >>

\* a cache check that already misses one tick before valid_until
cache_hit_early(t) == now_utc[t] + 1 < computed_cache.valid_until

\* "if now_utc < self._computed_cache['valid_until']"
cache_hit(t) == now_utc[t] < computed_cache.valid_until

\* a cache check whose return on a hit leaves the lock held
CacheCheck_keeps_lock(t) ==
    /\ pc[t] = "checking"
    /\ lock = t
    /\ IF cache_hit(t)
       THEN /\ ret' = [ret EXCEPT ![t] =
                         [statuses |-> computed_cache.statuses,
                          next |-> computed_cache.valid_until, some |-> TRUE]]
            /\ obs' = [obs EXCEPT ![t].from = computed_from,
                                  ![t].window = computed_cache.valid_until]
            /\ pc' = [pc EXCEPT ![t] = "done"]
            /\ lock' = lock
       ELSE /\ pc' = [pc EXCEPT ![t] = "recompute"]
            /\ lock' = NoThread
            /\ UNCHANGED << ret, obs >>
    /\ UNCHANGED << clock, local_event_cache, last_cache_update,
                    computed_cache, force_fetch, now_utc, fetch_now,
                    new_cache, fetches, installs, computed_from, prev, calls, rvars, hvars, qvars >>

\* the cache check under the lock: return the memoized pair, or fall through
CacheCheck(t) ==
    /\ pc[t] = "checking"
    /\ lock = t
    /\ lock' = NoThread
    /\ IF cache_hit(t)
       THEN /\ ret' = [ret EXCEPT ![t] =
                         [statuses |-> computed_cache.statuses,
                          next |-> computed_cache.valid_until, some |-> TRUE]]
            /\ obs' = [obs EXCEPT ![t].from = computed_from,
                                  ![t].window = computed_cache.valid_until]
            /\ pc' = [pc EXCEPT ![t] = "done"]
       ELSE /\ pc' = [pc EXCEPT ![t] = "recompute"]
            /\ UNCHANGED << ret, obs >>
    /\ UNCHANGED << clock, local_event_cache, last_cache_update,
                    computed_cache, force_fetch, now_utc, fetch_now,
                    new_cache, fetches, installs, computed_from, prev, calls, rvars, hvars, qvars >>

\* "with self._lock:" of the recomputation
AcquireRecompute(t) ==
    /\ pc[t] = "recompute"
    /\ lock = NoThread
    /\ lock' = t
    /\ pc' = [pc EXCEPT ![t] = "recomputing"]
    /\ UNCHANGED << clock, local_event_cache, last_cache_update,
                    computed_cache, force_fetch, now_utc, fetch_now,
                    new_cache, ret, fetches, installs, computed_from, obs,
                    prev, calls, rvars, hvars, qvars >>

\* the recomputation under the lock, the release and the return
Recompute(t) ==
    /\ pc[t] = "recomputing"
    /\ lock = t
    /\ computed_cache' =
          [statuses |-> current_statuses(local_event_cache, now_utc[t]),
           valid_until |-> new_valid_until(local_event_cache, now_utc[t])]
    /\ computed_from' = installs
    /\ lock' = NoThread
    /\ ret' = [ret EXCEPT ![t] =
                 [statuses |-> current_statuses(local_event_cache, now_utc[t]),
                  next |-> global_next_change_time(local_event_cache,
                                                   now_utc[t]),
                  some |-> TRUE]]
    /\ obs' = [obs EXCEPT ![t].recomputed = TRUE,
                          ![t].from = installs,
                          ![t].window = new_valid_until(local_event_cache,
                                                        now_utc[t])]
    /\ pc' = [pc EXCEPT ![t] = "done"]
    /\ UNCHANGED << clock, local_event_cache, last_cache_update, force_fetch,
                    now_utc, fetch_now, new_cache, fetches, installs, prev,
                    calls, rvars, hvars, qvars >>

\* the caller has the result; the thread is free for its next call
Return(t) ==
    /\ pc[t] = "done"
    /\ prev' = [some |-> TRUE, force |-> force_fetch[t], ret |-> ret[t],
                window |-> obs[t].window, installs |-> installs,
                calls |-> calls]
    /\ ret' = [ret EXCEPT ![t] = NoRet]
    /\ obs' = [obs EXCEPT ![t] = NoObs]
    /\ force_fetch' = [force_fetch EXCEPT ![t] = FALSE]
    /\ now_utc' = [now_utc EXCEPT ![t] = Epoch]
    /\ pc' = [pc EXCEPT ![t] = "idle"]
    /\ UNCHANGED << clock, fetch_now, local_event_cache, last_cache_update,
                    computed_cache, lock, new_cache, fetches, installs,
                    computed_from, calls, rvars, hvars, qvars >>

Next ==
    \/ Tick
    \/ \E t \in Threads : \E f \in ForceArgs(t) : Call(t, f)
    \/ \E t \in Threads : StaleTest(t)
    \/ \E t \in Threads : FetchBegin(t)
    \/ \E t \in Threads : \E items \in FetchResults(next_id(t)) :
            FetchCalendar(t, items)
    \/ \E t \in Threads : FetchRaise(t)
    \/ \E t \in Threads : AcquireInstall(t)
    \/ \E t \in Threads : Install(t)
    \/ \E t \in Threads : AcquireCheck(t)
    \/ \E t \in Threads : CacheCheck(t)
    \/ \E t \in Threads : AcquireRecompute(t)
    \/ \E t \in Threads : Recompute(t)
    \/ \E t \in Threads : Return(t)

Spec == Init /\ [][Next]_vars

(* ------------------- the aggregator on its own ------------------------- *)
(* _resolve_status_for_calendar is a pure function of its arguments: it is *)
(* applied once to an event list, a config item and a now drawn from       *)
(* bounded sets.                                                           *)
Instants == 1..MaxTime
RawEvents ==
    {[start |-> a, end |-> b] : a \in Instants, b \in Instants}
    \cup {all_day, [start |-> 1, end |-> NoTime]}
\* timed events have start < end; the others are all-day or unparsable
EventSet == {e \in RawEvents : is_valid(parse_times(e)) => e.start < e.end}
EventLists == UNION {[1..n -> EventSet] : n \in 0..MaxEvents}
\* config items: with and without 'pending_minutes', 'prepare_minutes' and a
\* PREPARE status, with prepare windows shorter and longer than the pending one
ConfigSet ==
    {[id |-> "test_cal", has_pending |-> hp, pending_minutes |-> pm,
      has_prepare |-> hq, prepare_minutes |-> qm, statuses |-> st] :
        hp \in BOOLEAN, pm \in {0, 2}, hq \in BOOLEAN, qm \in {1, 3},
        st \in {{"FREE", "PENDING", "BUSY", "ERROR"},
                {"FREE", "PREPARE", "PENDING", "BUSY", "ERROR"}}}

InitResolve ==
    /\ InitManager
    /\ r_events \in EventLists
    /\ r_config \in ConfigSet
    /\ r_now \in Instants
    /\ r_out = NoOut
    /\ r_class = NoClass
    /\ InitServer
    /\ InitHandlers

\* manager._resolve_status_for_calendar("test_cal", events, config_item, now)
Resolve ==
    /\ r_out = NoOut
    /\ r_class = NoClass
    /\ r_out' = resolve_status_for_calendar(r_events, r_config, r_now)
    /\ UNCHANGED << svars, hvars, r_events, r_config, r_now, r_class, qvars >>

\* CalendarEvent(events[i]).get_status(now, pending_delta, prepare_delta,
\* has_prepare_status), with the arguments the aggregator derives
Classify(i) ==
    /\ r_class = NoClass
    /\ r_out = NoOut
    /\ LET r == get_status(parse_times(r_events[i]), r_now,
                           pending_delta_of(r_config),
                           prepare_delta_of(r_config),
                           "PREPARE" \in r_config.statuses)
       IN r_class' = [event |-> i, status |-> r.status,
                      transition |-> r.transition]
    /\ UNCHANGED << svars, hvars, r_events, r_config, r_now, r_out, qvars >>

NextResolve ==
    \/ Resolve
    \/ \E i \in DOMAIN r_events : Classify(i)

SpecResolve == InitResolve /\ [][NextResolve]_vars

(* ------------------ dashboard_server.py: the host functions ------------ *)
(* The poller loop and the request handlers, with the wake event between   *)
(* them.  A check_status call of a host function is taken here as one      *)
(* step at one instant: the steps of Spec, run without a step of another   *)
(* thread in between (their interleavings are the subject of Spec).        *)
cvars == << lock, pc, force_fetch, now_utc, fetch_now, new_cache, ret, calls,
            fetches, installs, computed_from, obs, prev >>

\* the raw caches a fetch cycle may build
NewCaches ==
    {[id \in CalendarIds |-> [items |-> g[id], fetch |-> 0]] :
        g \in {h \in [CalendarIds ->
                        UNION {FetchResults(id) : id \in CalendarIds}] :
                  \A id \in CalendarIds : h[id] \in FetchResults(id)}}

\* a staleness test that also fetches at exactly the maximum interval
fetch_due_at_interval(f) ==
    f \/ clock - last_cache_update >= CALENDAR_MAX_FETCH_INTERVAL_SECONDS

\* "if force_fetch or time_since_last > max_interval", for a call made now
fetch_due(f) ==
    f \/ clock - last_cache_update > CALENDAR_MAX_FETCH_INTERVAL_SECONDS

\* what _fetch_from_api does in a call made now with force_fetch=f: it
\* raises, or it installs; it is not called unless the fetch is due
Raised == [raised |-> TRUE, cache |-> << >>]
FetchOutcomes(f) ==
    IF fetch_due(f)
    THEN {Raised} \cup {[raised |-> FALSE, cache |-> c] : c \in NewCaches}
    ELSE {Raised}

(* check_status(force_fetch=f) entered now, with the outcome its fetch has  *)
(* if it is due: what it does to the caches and what it returns.           *)
\* _fetch_from_api reaches its block under the lock
installs_now(f, outcome) == fetch_due(f) /\ ~outcome.raised

\* self._local_event_cache after lines 140-142
cache_after(f, outcome) ==
    IF installs_now(f, outcome) THEN outcome.cache ELSE local_event_cache

\* self._last_cache_update after lines 140-142
last_after(f, outcome) ==
    IF installs_now(f, outcome) THEN clock ELSE last_cache_update

\* self._computed_cache after lines 140-142
computed_before(f, outcome) ==
    IF installs_now(f, outcome) THEN invalidated(computed_cache)
    ELSE computed_cache

\* "if now_utc < self._computed_cache['valid_until']" (line 146)
serial_hit(f, outcome) == clock < computed_before(f, outcome).valid_until

\* self._computed_cache when the call returns: its 'statuses' are the
\* statuses the call returns (line 147 and line 198)
computed_after(f, outcome) ==
    IF serial_hit(f, outcome) THEN computed_before(f, outcome)
    ELSE [statuses |-> current_statuses(cache_after(f, outcome), clock),
          valid_until |-> new_valid_until(cache_after(f, outcome), clock)]

\* the second component of the pair returned (lines 148-150 and line 198)
returned_next(f, outcome) ==
    IF serial_hit(f, outcome) THEN computed_before(f, outcome).valid_until
    ELSE global_next_change_time(cache_after(f, outcome), clock)

\* the manager after the call
check_status_serial(f, outcome) ==
    /\ local_event_cache' = cache_after(f, outcome)
    /\ last_cache_update' = last_after(f, outcome)
    /\ computed_cache' = computed_after(f, outcome)

\* the history of the loop after one more check_status call
note_call(it, f, statuses) ==
    IF ~it.woke THEN it
    ELSE [it EXCEPT !.calls = @ + 1, !.forced = @ \/ f,
                    !.reeval = IF it.calls = 0 THEN statuses ELSE @]

\* the history of the loop after it emitted the statuses of its last call
note_push(it, statuses) ==
    IF ~it.woke THEN it
    ELSE [it EXCEPT !.pushed = TRUE, !.push = statuses,
                    !.push_call = it.calls]

\* a sleep time without the cap of one hour
sleep_time_uncapped(next_change, now) ==
    IF next_change = NoTime THEN DEFAULT_SLEEP
    ELSE IF next_change - now <= 0 THEN MIN_SLEEP
    ELSE IF next_change - now > MIN_SLEEP THEN next_change - now
    ELSE MIN_SLEEP

\* sleep_time of one loop iteration (lines 83-103)
sleep_time_of(next_change, now) ==
    LET chosen == IF next_change = NoTime THEN DEFAULT_SLEEP
                  ELSE IF next_change - now <= 0 THEN MIN_SLEEP
                  ELSE IF next_change - now > MIN_SLEEP
                       THEN next_change - now
                  ELSE MIN_SLEEP
    IN IF chosen < SleepCap THEN chosen ELSE SleepCap

\* time passes
Elapse ==
    /\ clock < StartTime + MaxElapse
    /\ clock' = clock + 1
    /\ UNCHANGED << local_event_cache, last_cache_update, computed_cache,
                    cvars, rvars, hvars, qvars >>

\* "_, next_change_time = CALENDAR_MANAGER.check_status()" (line 81)
PollerStatus(outcome) ==
    /\ loop = "status"
    /\ check_status_serial(FALSE, outcome)
    /\ next_change_time' = returned_next(FALSE, outcome)
    /\ iter' = note_call(iter, FALSE, computed_cache'.statuses)
    /\ sleep_time' = 0
    /\ wait_from' = Epoch
    /\ woken_by_event' = FALSE
    /\ loop' = "sleep"
    /\ UNCHANGED << clock, cvars, rvars, wake, route,
                    last_manual_refresh_time, sets_pending, absorbed, qvars >>

\* lines 83-110: sleep_time is computed and the timed wait is started
PollerSleep ==
    /\ loop = "sleep"
    /\ sleep_time' = sleep_time_of(next_change_time, clock)
    /\ wait_from' = clock
    /\ loop' = "wait"
    /\ UNCHANGED << clock, local_event_cache, last_cache_update,
                    computed_cache, cvars, rvars, wake, next_change_time,
                    woken_by_event, route, last_manual_refresh_time,
                    sets_pending, absorbed, iter, qvars >>

\* CALENDAR_WAKE_EVENT.wait(timeout=sleep_time) returns True: the flag is set
PollerWoken ==
    /\ loop = "wait"
    /\ wake
    /\ woken_by_event' = TRUE
    /\ iter' = [NoIter EXCEPT !.woke = TRUE]
    /\ loop' = "clear"
    /\ UNCHANGED << clock, local_event_cache, last_cache_update,
                    computed_cache, cvars, rvars, wake, next_change_time,
                    sleep_time, wait_from, route, last_manual_refresh_time,
                    sets_pending, absorbed, qvars >>

\* the wait returns False: sleep_time has passed and the flag is not set
PollerTimeout ==
    /\ loop = "wait"
    /\ ~wake
    /\ clock >= wait_from + sleep_time
    /\ woken_by_event' = FALSE
    /\ iter' = [NoIter EXCEPT !.woke = TRUE]
    /\ loop' = "reeval"
    /\ UNCHANGED << clock, local_event_cache, last_cache_update,
                    computed_cache, cvars, rvars, wake, next_change_time,
                    sleep_time, wait_from, route, last_manual_refresh_time,
                    sets_pending, absorbed, qvars >>

\* a wake that leaves the flag of the event set
PollerClear_keeps ==
    /\ loop = "clear"
    /\ absorbed' = sets_pending
    /\ loop' = "reeval"
    /\ UNCHANGED << clock, local_event_cache, last_cache_update,
                    computed_cache, cvars, rvars, wake, sets_pending,
                    next_change_time, sleep_time, wait_from, woken_by_event,
                    route, last_manual_refresh_time, iter, qvars >>

\* "if woken_by_event: CALENDAR_WAKE_EVENT.clear()"
PollerClear ==
    /\ loop = "clear"
    /\ wake' = FALSE
    /\ absorbed' = sets_pending
    /\ sets_pending' = 0
    /\ loop' = "reeval"
    /\ UNCHANGED << clock, local_event_cache, last_cache_update,
                    computed_cache, cvars, rvars, next_change_time,
                    sleep_time, wait_from, woken_by_event, route,
                    last_manual_refresh_time, iter, qvars >>

\* a re-evaluation that forces the fetch
PollerReeval_forced(outcome) ==
    /\ loop = "reeval"
    /\ check_status_serial(TRUE, outcome)
    /\ iter' = note_call(iter, TRUE, computed_cache'.statuses)
    /\ loop' = "emit"
    /\ UNCHANGED << clock, cvars, rvars, wake, next_change_time, sleep_time,
                    wait_from, woken_by_event, route,
                    last_manual_refresh_time, sets_pending, absorbed, qvars >>

\* "CALENDAR_MANAGER.check_status(force_fetch=False)" (line 133)
PollerReeval(outcome) ==
    /\ loop = "reeval"
    /\ check_status_serial(FALSE, outcome)
    /\ iter' = note_call(iter, FALSE, computed_cache'.statuses)
    /\ loop' = "emit"
    /\ UNCHANGED << clock, cvars, rvars, wake, next_change_time, sleep_time,
                    wait_from, woken_by_event, route,
                    last_manual_refresh_time, sets_pending, absorbed, qvars >>

\* socketio.emit('status_update', get_dashboard_data_from_cache_or_poller()):
\* the data emitted are those of one more check_status() call (line 154)
PollerEmit(outcome) ==
    /\ loop = "emit"
    /\ check_status_serial(FALSE, outcome)
    /\ iter' = note_push(note_call(iter, FALSE, computed_cache'.statuses),
                         computed_cache'.statuses)
    /\ loop' = "status"
    /\ UNCHANGED << clock, cvars, rvars, wake, next_change_time, sleep_time,
                    wait_from, woken_by_event, route,
                    last_manual_refresh_time, sets_pending, absorbed, qvars >>

\* get_dashboard_data_from_cache_or_poller() of the routes "/" and
\* "/api/status", of handle_connect and of the other background thread
GetDashboardData(outcome) ==
    /\ route = "idle"
    /\ check_status_serial(FALSE, outcome)
    /\ UNCHANGED << clock, cvars, rvars, hvars, qvars >>

\* api_refresh_calendar, lines 193-208: the rate limit
RefreshLimit ==
    /\ route = "idle"
    /\ IF clock - last_manual_refresh_time < CALENDAR_MIN_REFRESH_INTERVAL
       THEN UNCHANGED << route, last_manual_refresh_time >>
       ELSE /\ last_manual_refresh_time' = clock
            /\ route' = "force"
    /\ UNCHANGED << clock, local_event_cache, last_cache_update,
                    computed_cache, cvars, rvars, wake, loop,
                    next_change_time, sleep_time, wait_from, woken_by_event,
                    sets_pending, absorbed, iter, qvars >>

\* "CALENDAR_MANAGER.check_status(force_fetch=True)" (line 211)
RefreshForce(outcome) ==
    /\ route = "force"
    /\ check_status_serial(TRUE, outcome)
    /\ route' = "emit"
    /\ UNCHANGED << clock, cvars, rvars, wake, loop, next_change_time,
                    sleep_time, wait_from, woken_by_event,
                    last_manual_refresh_time, sets_pending, absorbed, iter, qvars >>

\* socketio.emit(...) of api_refresh_calendar (line 214)
RefreshEmit(outcome) ==
    /\ route = "emit"
    /\ check_status_serial(FALSE, outcome)
    /\ route' = "set"
    /\ UNCHANGED << clock, cvars, rvars, wake, loop, next_change_time,
                    sleep_time, wait_from, woken_by_event,
                    last_manual_refresh_time, sets_pending, absorbed, iter, qvars >>

\* "CALENDAR_WAKE_EVENT.set()" (line 218); sets_pending counts to two
RefreshSet ==
    /\ route = "set"
    /\ wake' = TRUE
    /\ sets_pending' = IF sets_pending < 2 THEN sets_pending + 1 ELSE 2
    /\ route' = "idle"
    /\ UNCHANGED << clock, local_event_cache, last_cache_update,
                    computed_cache, cvars, rvars, loop, next_change_time,
                    sleep_time, wait_from, woken_by_event,
                    last_manual_refresh_time, absorbed, iter, qvars >>

NextScheduler ==
    \/ Elapse
    \/ \E outcome \in FetchOutcomes(FALSE) : PollerStatus(outcome)
    \/ PollerSleep
    \/ PollerWoken
    \/ PollerTimeout
    \/ PollerClear
    \/ \E outcome \in FetchOutcomes(FALSE) : PollerReeval(outcome)
    \/ \E outcome \in FetchOutcomes(FALSE) : PollerEmit(outcome)
    \/ \E outcome \in FetchOutcomes(FALSE) : GetDashboardData(outcome)
    \/ RefreshLimit
    \/ \E outcome \in FetchOutcomes(TRUE) : RefreshForce(outcome)
    \/ \E outcome \in FetchOutcomes(FALSE) : RefreshEmit(outcome)
    \/ RefreshSet

SpecScheduler == Init /\ [][NextScheduler]_vars

(* ------------------ dashboard_server.py: concurrent requests ----------- *)
(* The request handlers run in threads of their own: two of them, each     *)
(* serving api_refresh_calendar or api_status requests one after another.  *)
(* A check_status call is one step, as above.                              *)

\* what a check_status(f) call made now saw, and what its fetch did
note_status_call(f, outcome) ==
    [some |-> TRUE, force_fetch |-> f, now_utc |-> clock,
     last_cache_update |-> last_cache_update,
     fetch |-> IF ~fetch_due(f) THEN "none"
               ELSE IF outcome.raised THEN "raised" ELSE "installed"]

\* api_status (lines 181-185): get_dashboard_data_from_cache_or_poller()
ApiStatus(h, outcome) ==
    /\ request[h] = "idle"
    /\ check_status_serial(FALSE, outcome)
    /\ last_call' = note_status_call(FALSE, outcome)
    /\ UNCHANGED << clock, cvars, rvars, hvars, request, current_time,
                    time_since_last_refresh, accepted_at >>

\* api_refresh_calendar, lines 193-197: the clock and the global are read
ApiRefreshBegin(h) ==
    /\ request[h] = "idle"
    /\ current_time' = [current_time EXCEPT ![h] = clock]
    /\ time_since_last_refresh' =
          [time_since_last_refresh EXCEPT
              ![h] = clock - last_manual_refresh_time]
    /\ request' = [request EXCEPT ![h] = "limit"]
    /\ UNCHANGED << clock, local_event_cache, last_cache_update,
                    computed_cache, cvars, rvars, hvars, accepted_at,
                    last_call >>

\* api_refresh_calendar, lines 199-208: the 429 answer, or the global is
\* written
ApiRefreshLimit(h) ==
    /\ request[h] = "limit"
    /\ IF time_since_last_refresh[h] < CALENDAR_MIN_REFRESH_INTERVAL
       THEN /\ request' = [request EXCEPT ![h] = "idle"]
            /\ current_time' = [current_time EXCEPT ![h] = Epoch]
            /\ UNCHANGED << last_manual_refresh_time, accepted_at >>
       ELSE /\ last_manual_refresh_time' = current_time[h]
            /\ accepted_at' = [accepted_at EXCEPT ![h] = current_time[h]]
            /\ request' = [request EXCEPT ![h] = "force"]
            /\ UNCHANGED current_time
    /\ time_since_last_refresh' = [time_since_last_refresh EXCEPT ![h] = 0]
    /\ UNCHANGED << clock, local_event_cache, last_cache_update,
                    computed_cache, cvars, rvars, wake, loop,
                    next_change_time, sleep_time, wait_from, woken_by_event,
                    route, sets_pending, absorbed, iter, last_call >>

\* "CALENDAR_MANAGER.check_status(force_fetch=True)" (line 211)
ApiRefreshForce(h, outcome) ==
    /\ request[h] = "force"
    /\ check_status_serial(TRUE, outcome)
    /\ last_call' = note_status_call(TRUE, outcome)
    /\ request' = [request EXCEPT ![h] = "emit"]
    /\ UNCHANGED << clock, cvars, rvars, hvars, current_time,
                    time_since_last_refresh, accepted_at >>

\* socketio.emit(...) of api_refresh_calendar (line 214)
ApiRefreshEmit(h, outcome) ==
    /\ request[h] = "emit"
    /\ check_status_serial(FALSE, outcome)
    /\ last_call' = note_status_call(FALSE, outcome)
    /\ request' = [request EXCEPT ![h] = "set"]
    /\ UNCHANGED << clock, cvars, rvars, hvars, current_time,
                    time_since_last_refresh, accepted_at >>

\* "CALENDAR_WAKE_EVENT.set()" (line 218), and the answer
ApiRefreshSet(h) ==
    /\ request[h] = "set"
    /\ wake' = TRUE
    /\ request' = [request EXCEPT ![h] = "idle"]
    /\ current_time' = [current_time EXCEPT ![h] = Epoch]
    /\ UNCHANGED << clock, local_event_cache, last_cache_update,
                    computed_cache, cvars, rvars, loop, next_change_time,
                    sleep_time, wait_from, woken_by_event, route,
                    last_manual_refresh_time, sets_pending, absorbed, iter,
                    time_since_last_refresh, accepted_at, last_call >>

NextRefresh ==
    \/ Elapse
    \/ \E h \in Handlers : \E outcome \in FetchOutcomes(FALSE) :
            ApiStatus(h, outcome)
    \/ \E h \in Handlers : ApiRefreshBegin(h)
    \/ \E h \in Handlers : ApiRefreshLimit(h)
    \/ \E h \in Handlers : \E outcome \in FetchOutcomes(TRUE) :
            ApiRefreshForce(h, outcome)
    \/ \E h \in Handlers : \E outcome \in FetchOutcomes(FALSE) :
            ApiRefreshEmit(h, outcome)
    \/ \E h \in Handlers : ApiRefreshSet(h)

SpecRefresh == Init /\ [][NextRefresh]_vars

(* ------------------------------ properties ----------------------------- *)
\* steps of thread t, recognised by its program counter
enters(t, where) == pc[t] # where /\ pc'[t] = where
leaves(t, where) == pc[t] = where /\ pc'[t] # where
fetching == {"list", "install", "installing"}
caches_unchanged ==
    /\ local_event_cache' = local_event_cache
    /\ last_cache_update' = last_cache_update
    /\ computed_cache' = computed_cache

\* C1 as claimed: a call entered at a now with now < valid_until makes no
\* fetch attempt and runs no recomputation.
C1_HitNeverFetches ==
    \A t \in Threads :
        (pc[t] # "idle" /\ obs[t].valid_at_call) =>
            /\ pc[t] \notin {"fetch"} \cup fetching
            /\ ~obs[t].attempted
            /\ ~obs[t].recomputed

\* C1 amended: a call that finds now < valid_until at its cache check returns
\* the memoized statuses with valid_until, runs no recomputation and changes
\* neither cache layer; a call with force_fetch false and a raw cache that is
\* not stale goes to the cache check without a fetch attempt.
C1_CacheHit ==
    [][\A t \in Threads :
        /\ (leaves(t, "test") /\ ~force_fetch[t]
            /\ now_utc[t] - last_cache_update
                   <= CALENDAR_MAX_FETCH_INTERVAL_SECONDS)
           => (pc'[t] = "check" /\ fetches' = fetches
               /\ ~obs'[t].attempted /\ caches_unchanged)
        /\ (leaves(t, "checking")
            /\ now_utc[t] < computed_cache.valid_until)
           => (pc'[t] = "done"
               /\ ret'[t].some
               /\ ret'[t].statuses = computed_cache.statuses
               /\ ret'[t].next = computed_cache.valid_until
               /\ ~obs'[t].recomputed
               /\ caches_unchanged)]_vars

\* a call without a fetch attempt has returned the memoized statuses
C1_Witness ==
    \E t \in Threads :
        /\ pc[t] = "done" /\ ~obs[t].attempted /\ ~obs[t].recomputed
        /\ ret[t].statuses = computed_cache.statuses
        /\ Len(ret[t].statuses) = Len(CALENDAR_CONFIGS)

\* C2: a check_status(False) call that is the first one entered after a
\* check_status(False) call returned, within the validity window of that
\* call and with no refresh in between, returns the same pair (statuses,
\* next change) and runs no recomputation.
C2_Idempotent ==
    \A t \in Threads :
        (/\ pc[t] = "done" /\ ~force_fetch[t]
         /\ prev.some /\ ~prev.force
         /\ obs[t].call_index = prev.calls + 1
         /\ prev.installs = installs /\ ~obs[t].installed
         /\ now_utc[t] < prev.window
         /\ obs[t].window = prev.window)
        => (/\ ret[t].statuses = prev.ret.statuses
            /\ ret[t].next = prev.ret.next
            /\ ~obs[t].recomputed)

\* C3: a caller runs the recomputation only when the computed cache is not
\* valid for its now: callers that found it expired together do not each
\* recompute and write it.
C3_OneRecomputePerWindow ==
    [][\A t \in Threads :
        leaves(t, "recomputing")
            => ~(now_utc[t] < computed_cache.valid_until)]_vars

\* C4: no two refreshes are in progress at the same time, and a thread that
\* fetches holds the lock of the caches.
C4_OneRefreshAtATime ==
    /\ Cardinality({t \in Threads : pc[t] \in fetching}) <= 1
    /\ \A t \in Threads : pc[t] \in fetching => lock = t

\* C5: a valid computed cache (valid_until later than the distant past) was
\* computed from the raw cache now installed, and a call entered after a
\* refresh completed returns statuses computed from the raw cache of that
\* refresh or of a later one, never from one that was replaced before.
C5_LayersConsistent ==
    /\ computed_cache.valid_until > Epoch => computed_from = installs
    /\ \A t \in Threads :
          pc[t] = "done" => obs[t].from >= obs[t].installs_at_call

\* a call entered after a refresh has returned, the computed cache valid
C5_Witness ==
    \E t \in Threads :
        /\ pc[t] = "done" /\ obs[t].installs_at_call >= 1
        /\ computed_cache.valid_until > Epoch
        /\ DOMAIN local_event_cache = CalendarIds

\* C6: the raw cache holds lists of one single fetch cycle for all the
\* calendars (or is still the empty one of construction), so no
\* recomputation reads a mixed one; a fetch that raises replaces no list.
C6_AtomicRefresh ==
    /\ DOMAIN local_event_cache \in {{}, CalendarIds}
    /\ \A c, d \in DOMAIN local_event_cache :
          local_event_cache[c].fetch = local_event_cache[d].fetch
    /\ \A t \in Threads :
          obs[t].partial
              => \A c \in DOMAIN local_event_cache :
                    local_event_cache[c].fetch # obs[t].fetch

\* a fetch raised after its first calendar was listed, over an installed cache
C6_Witness ==
    \E t \in Threads :
        /\ obs[t].partial /\ obs[t].fetch > 0 /\ installs >= 1
        /\ DOMAIN local_event_cache = CalendarIds

\* C7: a fetch that raises changes neither cache layer and leads to the
\* cache check, and the call returns statuses (no error) computed from the
\* raw cache that was there before the attempt, or from a later one that
\* another caller installed.
C7_FailureAbsorbed ==
    [][\A t \in Threads :
        /\ (pc[t] \in {"fetch", "list"}
            /\ pc'[t] \notin {"fetch", "list", "install"})
           => (pc'[t] = "check" /\ caches_unchanged
               /\ installs' = installs /\ lock' = lock)
        /\ (enters(t, "done") /\ obs'[t].attempted /\ ~obs'[t].installed)
           => (/\ ret'[t].some
               /\ Len(ret'[t].statuses) = Len(CALENDAR_CONFIGS)
               /\ obs'[t].from >= obs'[t].installs_at_call
               /\ (installs' = obs'[t].installs_at_call
                      => obs'[t].from = installs'))]_vars

\* a call whose fetch raised has returned statuses of an installed raw cache
C7_Witness ==
    \E t \in Threads :
        /\ pc[t] = "done" /\ obs[t].attempted /\ ~obs[t].installed
        /\ installs >= 1 /\ ret[t].some

C9_AlwaysAValue ==
    \A t \in Threads :
        pc[t] = "done" =>
            /\ ret[t].some
            /\ Len(ret[t].statuses) = Len(CALENDAR_CONFIGS)
            /\ \A i \in DOMAIN CALENDAR_CONFIGS :
                  /\ ret[t].statuses[i].id = CALENDAR_CONFIGS[i].id
                  /\ ret[t].statuses[i].status
                        \in {"FREE", "PENDING", "PREPARE", "BUSY"}
                  /\ ret[t].statuses[i].display = ret[t].statuses[i].status

\* a call has returned before any refresh succeeded
C9_Witness ==
    \E t \in Threads :
        /\ pc[t] = "done" /\ DOMAIN local_event_cache = {}
        /\ Len(ret[t].statuses) = Len(CALENDAR_CONFIGS)

\* the classifications of the valid events of the list given to the aggregator
r_classes ==
    {get_status(parse_times(r_events[i]), r_now, pending_delta_of(r_config),
                prepare_delta_of(r_config),
                "PREPARE" \in r_config.statuses).status :
        i \in {j \in DOMAIN r_events : is_valid(parse_times(r_events[j]))}}

\* C10: the aggregator returns the highest status, under
\* BUSY > PENDING > PREPARE > FREE, among the classifications of the valid
\* events, FREE when there is none, wherever the winning event stands.
C10_PriorityAggregation ==
    r_out # NoOut =>
        r_out.status =
            IF "BUSY" \in r_classes THEN "BUSY"
            ELSE IF "PENDING" \in r_classes THEN "PENDING"
            ELSE IF "PREPARE" \in r_classes THEN "PREPARE"
            ELSE "FREE"

\* a BUSY event listed after a PENDING one has won
C10_Witness ==
    /\ r_out # NoOut /\ r_out.status = "BUSY" /\ Len(r_events) = 2
    /\ get_status(parse_times(r_events[1]), r_now,
                  pending_delta_of(r_config), prepare_delta_of(r_config),
                  "PREPARE" \in r_config.statuses).status = "PENDING"

(* the arguments of the aggregator's run and of the classified event *)
r_pending == pending_delta_of(r_config)
r_prepare == prepare_delta_of(r_config)
r_has_prepare == "PREPARE" \in r_config.statuses
r_valid == {i \in DOMAIN r_events : is_valid(parse_times(r_events[i]))}
r_event(i) == parse_times(r_events[i])
c_event == parse_times(r_events[r_class.event])

\* the transition instants of the valid events that lie strictly after now
r_future ==
    {x \in {get_status(r_event(i), r_now, r_pending, r_prepare,
                       r_has_prepare).transition : i \in r_valid} :
        x # NoTime /\ x > r_now}

\* C11: the aggregator returns as next change the least transition instant
\* strictly after now among those of all the valid events, none if there is
\* no such instant, whichever event supplied the status.
C11_EarliestTransition ==
    r_out # NoOut =>
        r_out.next_change =
            IF r_future = {} THEN NoTime
            ELSE CHOOSE x \in r_future : \A y \in r_future : x <= y

\* a BUSY event ending later is listed before a PENDING event starting sooner
C11_Witness ==
    /\ r_out # NoOut /\ Len(r_events) = 2 /\ r_valid = {1, 2}
    /\ r_out.status = "BUSY"
    /\ r_event(1).start <= r_now /\ r_now < r_event(1).end
    /\ r_event(2).start - r_pending <= r_now /\ r_now < r_event(2).start
    /\ r_event(2).start < r_event(1).end
    /\ r_out.next_change = r_event(2).start

\* C12: for a valid event and a now with start <= now < end, get_status
\* returns BUSY with the transition end + 1 microsecond, whatever the windows
\* and the prepare flag.
C12_BusyRule ==
    (r_class # NoClass /\ is_valid(c_event)
     /\ c_event.start <= r_now /\ r_now < c_event.end)
    => (r_class.status = "BUSY"
        /\ r_class.transition = c_event.end + Microsecond)

\* an event was classified at the instant it starts, with a PREPARE window
C12_Witness ==
    /\ r_class # NoClass /\ is_valid(c_event)
    /\ r_now = c_event.start /\ r_class.status = "BUSY"
    /\ r_has_prepare /\ r_prepare > r_pending

\* C13: for a valid event and a now with start - pending <= now < start,
\* get_status returns PENDING with the transition start, with and without a
\* prepare status.
C13_PendingRule ==
    (r_class # NoClass /\ is_valid(c_event)
     /\ c_event.start - r_pending <= r_now /\ r_now < c_event.start)
    => (r_class.status = "PENDING" /\ r_class.transition = c_event.start)

\* an event was classified at the first instant of its pending window
C13_Witness ==
    /\ r_class # NoClass /\ is_valid(c_event)
    /\ r_pending > 0 /\ r_now = c_event.start - r_pending
    /\ r_class.status = "PENDING"
    /\ r_has_prepare /\ r_prepare > r_pending

\* C14: for a valid event of a calendar with a PREPARE status and a now with
\* start - prepare <= now < start - pending, get_status returns PREPARE with
\* the transition start - pending, and a calendar whose only valid event is
\* in that window resolves to PREPARE with that next change.
C14_PrepareRule ==
    /\ (r_class # NoClass /\ is_valid(c_event) /\ r_has_prepare
        /\ c_event.start - r_prepare <= r_now
        /\ r_now < c_event.start - r_pending)
       => (r_class.status = "PREPARE"
           /\ r_class.transition = c_event.start - r_pending)
    /\ (r_out # NoOut /\ r_has_prepare /\ Cardinality(r_valid) = 1)
       => \A i \in r_valid :
             (r_event(i).start - r_prepare <= r_now
              /\ r_now < r_event(i).start - r_pending)
             => r_out = [status |-> "PREPARE",
                         next_change |-> r_event(i).start - r_pending]

\* a calendar with one event, in its prepare window, was resolved
C14_Witness ==
    /\ r_out # NoOut /\ Len(r_events) = 1 /\ r_valid = {1}
    /\ r_has_prepare /\ r_pending > 0
    /\ r_event(1).start - r_prepare <= r_now
    /\ r_now < r_event(1).start - r_pending
    /\ r_out.status = "PREPARE"

\* the event is classified by none of the BUSY, PENDING and PREPARE rules
c_no_rule ==
    /\ ~(c_event.start <= r_now /\ r_now < c_event.end)
    /\ ~(c_event.start - r_pending <= r_now /\ r_now < c_event.start)
    /\ ~(r_has_prepare /\ c_event.start - r_prepare <= r_now
         /\ r_now < c_event.start - r_pending)

\* C15 as claimed: a valid event that none of the BUSY, PENDING and PREPARE
\* rules classifies is FREE; with now < start its transition is
\* start - prepare when the calendar has a PREPARE status and
\* start - pending when it has none; with now >= end it has no transition.
C15_FreeRules ==
    (r_class # NoClass /\ is_valid(c_event) /\ c_no_rule)
    => /\ r_class.status = "FREE"
       /\ (r_now < c_event.start /\ r_has_prepare)
             => r_class.transition = c_event.start - r_prepare
       /\ (r_now < c_event.start /\ ~r_has_prepare)
             => r_class.transition = c_event.start - r_pending
       /\ r_now >= c_event.end => r_class.transition = NoTime

\* C15 amended: as claimed, with the transition start - prepare only when
\* the calendar has a PREPARE status and the prepare window is strictly
\* longer than the pending window, and start - pending in every other case
\* with now < start.
C15_FreeRulesEffective ==
    (r_class # NoClass /\ is_valid(c_event) /\ c_no_rule)
    => /\ r_class.status = "FREE"
       /\ (r_now < c_event.start /\ r_has_prepare /\ r_prepare > r_pending)
             => r_class.transition = c_event.start - r_prepare
       /\ (r_now < c_event.start
           /\ ~(r_has_prepare /\ r_prepare > r_pending))
             => r_class.transition = c_event.start - r_pending
       /\ r_now >= c_event.end => r_class.transition = NoTime

\* a future event was classified before its prepare window
C15_Witness ==
    /\ r_class # NoClass /\ is_valid(c_event)
    /\ r_has_prepare /\ r_prepare > r_pending
    /\ r_now < c_event.start - r_prepare
    /\ r_class.status = "FREE"
    /\ r_class.transition = c_event.start - r_prepare

\* the events of the list given to the aggregator that have both times
r_valid_events ==
    SelectSeq(r_events, LAMBDA e : e.start # NoTime /\ e.end # NoTime)

\* C16: an event without a start or an end time is invalid and get_status
\* returns (FREE, None) for it, and the aggregator returns for a list what it
\* returns for the list without its invalid events.
C16_InvalidSkipped ==
    /\ \A i \in DOMAIN r_events :
          (r_events[i].start = NoTime \/ r_events[i].end = NoTime)
              => ~is_valid(r_event(i))
    /\ (r_class # NoClass /\ ~is_valid(c_event))
       => (r_class.status = "FREE" /\ r_class.transition = NoTime)
    /\ r_out # NoOut
       => r_out = resolve_status_for_calendar(r_valid_events, r_config, r_now)

\* a list with an invalid event before a valid one resolved to a status
\* other than FREE
C16_Witness ==
    /\ r_out # NoOut /\ Len(r_events) = 2 /\ r_valid = {2}
    /\ r_events[1].start # NoTime
    /\ r_out.status # "FREE" /\ r_out.next_change # NoTime

\* the per-calendar next-change instants of a recomputation by thread t
next_changes(t) ==
    {resolve_item(local_event_cache, i, now_utc[t]).next_change :
        i \in DOMAIN CALENDAR_CONFIGS} \ {NoTime}
\* the calendars whose raw events all ended at or before the now of thread t
all_past(t) ==
    {i \in DOMAIN CALENDAR_CONFIGS :
        LET events == cache_get(local_event_cache, CALENDAR_CONFIGS[i].id)
        IN /\ events # << >>
           /\ \A k \in DOMAIN events :
                 events[k].end # NoTime /\ events[k].end <= now_utc[t]}

\* C17: a recomputation at now stores as valid_until the least per-calendar
\* next-change instant of the calendars that have one, and now + 365 days
\* when none has one; a calendar whose events all lie in the past is FREE
\* and has no next-change instant.
C17_ValidityHorizon ==
    [][\A t \in Threads :
        leaves(t, "recomputing")
        => /\ computed_cache'.valid_until =
                 IF next_changes(t) = {} THEN now_utc[t] + HorizonDays
                 ELSE CHOOSE c \in next_changes(t) :
                         \A d \in next_changes(t) : c <= d
           /\ \A i \in all_past(t) :
                 /\ resolve_item(local_event_cache, i, now_utc[t])
                       = [status |-> "FREE", next_change |-> NoTime]
                 /\ computed_cache'.statuses[i].status = "FREE"]_vars

\* a recomputation over a calendar of past events and a calendar with a
\* next change has stored that next change; no refresh has come since
C17_Witness ==
    \E t \in Threads :
        /\ pc[t] = "done" /\ obs[t].recomputed /\ obs[t].from = installs
        /\ DOMAIN local_event_cache = CalendarIds
        /\ computed_cache.valid_until = obs[t].window
        /\ computed_cache.valid_until > now_utc[t]
        /\ computed_cache.valid_until < now_utc[t] + HorizonDays
        /\ all_past(t) # {} /\ next_changes(t) # {}

\* the greater and the lesser of two numbers
greater(a, b) == IF a >= b THEN a ELSE b
lesser(a, b) == IF a <= b THEN a ELSE b

\* C18: the timed wait of a loop iteration lasts
\* min(max(n - now, MIN_SLEEP), 3600) for the next-change instant n that
\* check_status returned and the now of the iteration, and DEFAULT_SLEEP
\* when check_status returned None; every wait lies between MIN_SLEEP and
\* the cap.
C18_SleepDuration ==
    loop = "wait" =>
        /\ sleep_time =
              IF next_change_time = NoTime THEN DEFAULT_SLEEP
              ELSE lesser(greater(next_change_time - wait_from, MIN_SLEEP),
                          SleepCap)
        /\ MIN_SLEEP <= sleep_time /\ sleep_time <= SleepCap

\* the loop waits the cap, the next-change instant being farther away
C18_Witness ==
    /\ loop = "wait" /\ next_change_time # NoTime
    /\ next_change_time - wait_from > SleepCap
    /\ sleep_time = SleepCap

\* C19: set() sets the flag whether or not it is set; a timed wait that ends
\* with the flag set ends as woken, whatever is left of sleep_time, and the
\* loop clears the flag and goes on to the re-evaluation; a wait that ends
\* with the flag clear has lasted sleep_time; so the flag is set exactly when
\* set() was called since the last clear(), however often.
C19_WakeSignal ==
    [][/\ (route = "set" /\ route' # "set")
          => (wake' /\ loop' = loop /\ sleep_time' = sleep_time
              /\ wait_from' = wait_from)
       /\ (loop = "wait" /\ loop' # "wait" /\ wake)
          => (loop' = "clear" /\ woken_by_event')
       /\ (loop = "wait" /\ loop' # "wait" /\ ~wake)
          => (loop' = "reeval" /\ ~woken_by_event'
              /\ clock >= wait_from + sleep_time)
       /\ (loop = "clear" /\ loop' # "clear")
          => (~wake' /\ loop' = "reeval")
       /\ wake' = (sets_pending' > 0)]_vars

\* the loop was woken before sleep_time had passed, after two set() calls,
\* and has cleared the flag
C19_Witness ==
    /\ loop = "reeval" /\ woken_by_event /\ ~wake
    /\ absorbed = 2
    /\ clock < wait_from + sleep_time

\* C20 as claimed: after a wake the loop calls check_status(force_fetch=False)
\* and pushes the statuses which that call returned, before its next wait.
C20_PushesReevaluation ==
    /\ (iter.woke /\ loop \in {"sleep", "wait"})
       => (iter.calls >= 1 /\ ~iter.forced /\ iter.pushed)
    /\ (iter.woke /\ iter.pushed) => iter.push = iter.reeval

\* C20 amended: after a wake the loop calls check_status(force_fetch=False),
\* then calls check_status() once more and pushes the statuses of this
\* second call, before its next wait; none of its calls forces the fetch.
C20_ReevaluateThenPush ==
    /\ ~iter.forced
    /\ (iter.woke /\ loop = "emit") => (iter.calls = 1 /\ ~iter.pushed)
    /\ (iter.woke /\ loop \in {"status", "sleep", "wait"})
       => (iter.calls >= 2 /\ iter.pushed)
    /\ (iter.woke /\ iter.pushed) => iter.push_call = 2

\* after a wake by the event the loop has re-evaluated and then pushed
\* statuses that differ from those its re-evaluation returned
C20_Witness ==
    /\ iter.woke /\ woken_by_event /\ loop = "status" /\ iter.pushed
    /\ iter.calls = 2 /\ iter.push # iter.reeval

\* ---------------------------------------------------------------------
\* The cache lock (calendar_manager.py, the three "with self._lock:")

\* t is inside one of the three blocks under the lock
critical(t) == pc[t] \in {"installing", "checking", "recomputing"}

\* t is at the entry of one of the three blocks
at_acquire(t) == pc[t] \in {"install", "check", "recompute"}

\* t can take the lock now
acquires(t) ==
    ENABLED (AcquireInstall(t) \/ AcquireCheck(t) \/ AcquireRecompute(t))

\* C21: the lock is held exactly by a thread inside one of the three blocks
\* under it, so it is free whenever no thread is inside one, whatever the
\* outcome of the fetch before; a thread outside check_status (the poller in
\* its timed wait) never holds it; and no thread at the entry of a block is
\* stuck: the lock is free and it can take it, or the holder is another
\* thread inside its block, which it leaves in its next step.
C21_LockNeverLeaked ==
    /\ \A t \in Threads : (lock = t) <=> critical(t)
    /\ (\A t \in Threads : ~critical(t)) => lock = NoThread
    /\ pc["poller"] \in {"idle", "done"} => lock # "poller"
    /\ \A t \in Threads :
          at_acquire(t) =>
             \/ lock = NoThread /\ acquires(t)
             \/ lock \in Threads \ {t} /\ critical(lock)

\* a call whose fetch raised has been through the cache check and the
\* recomputation and has returned, another thread is at the entry of a block,
\* and the lock is free
C21_Witness ==
    /\ \E t \in Threads : /\ pc[t] = "done"
                           /\ obs[t].attempted /\ ~obs[t].installed
                           /\ obs[t].recomputed
    /\ \E t \in Threads : at_acquire(t)
    /\ lock = NoThread

\* ---------------------------------------------------------------------
\* The next change of a calendar as the end of the status

\* the instants from now on at which the aggregator's answer is still served
\* by its own next change: all before it, all of them when there is none
r_served ==
    {t \in r_now..(MaxTime + 2 * Microsecond) :
        r_out.next_change = NoTime \/ t < r_out.next_change}

\* the status the aggregator gives for the same events and config item at t
r_status_at(t) == resolve_status_for_calendar(r_events, r_config, t).status

\* the end of an event that holds now: the instant one microsecond before
\* the transition get_status gives for it
r_ends == {r_event(i).end : i \in {j \in r_valid : r_event(j).start <= r_now
                                                  /\ r_now < r_event(j).end}}

\* C22 as stated: at every instant from now to just before the returned next
\* change (at every later instant if there is none) the aggregator returns
\* the status it returned at now.
C22_NextChangeSound ==
    r_out # NoOut => \A t \in r_served : r_status_at(t) = r_out.status

\* C22: the same, except at the one instant next change - 1 microsecond when
\* the next change is the end + 1 microsecond of an event that holds now: at
\* that instant, the end itself, the event is over already.
C22_SoundButForEnd ==
    r_out # NoOut =>
        \A t \in r_served :
            \/ r_status_at(t) = r_out.status
            \/ /\ r_out.next_change # NoTime
               /\ t = r_out.next_change - Microsecond
               /\ t \in r_ends

\* a BUSY answer is the fresh one at the next instant, inside the event, and
\* differs from the fresh one at the end of the event, the instant before the
\* next change
C22_Witness ==
    /\ r_out # NoOut /\ r_out.status = "BUSY"
    /\ r_out.next_change = r_now + 2 + Microsecond
    /\ r_status_at(r_now + 1) = "BUSY"
    /\ r_now + 2 \in r_ends
    /\ r_status_at(r_now + 2) # "BUSY"

\* ---------------------------------------------------------------------
\* The poller's wait and the validity horizon

\* the instant at which the poller's timed wait ends by itself
wake_time == wait_from + sleep_time

\* C23 as stated: while the poller waits, the wake event is set or its wait
\* ends no later than the later of valid_until and the start of the wait +
\* MIN_SLEEP; a manual refresh that has fetched and has its set() still
\* ahead is let through.
C23_FollowsHorizon ==
    loop = "wait" =>
        \/ wake
        \/ route \in {"emit", "set"}
        \/ wake_time <= greater(computed_cache.valid_until,
                                wait_from + MIN_SLEEP)

\* C24 as stated: while the poller waits and no calendar of the raw cache has
\* a transition after the start of the wait, the wait is DEFAULT_SLEEP long.
C24_IdlePolling ==
    (loop = "wait"
     /\ global_next_change_time(local_event_cache, wait_from) = NoTime)
        => sleep_time = DEFAULT_SLEEP

\* ---------------------------------------------------------------------
\* When check_status fetches

\* the raw cache was stale for the call made last
call_stale ==
    last_call.now_utc - last_call.last_cache_update
        > CALENDAR_MAX_FETCH_INTERVAL_SECONDS

\* C25: a check_status call fetches exactly if force_fetch is true or now
\* minus the time of the last refresh is strictly greater than the maximum
\* interval; a fetch that raised leaves the time of the last refresh as it
\* was, so after a failed fetch of a stale cache a call made at any later
\* time finds it stale again, and after a failed forced fetch of a cache
\* that was not stale the cache turns stale when it would have without it.
C25_WhenRefreshAttempted ==
    last_call.some =>
        /\ (last_call.fetch # "none") <=> (last_call.force_fetch \/ call_stale)
        /\ last_call.fetch = "raised" =>
              /\ last_cache_update = last_call.last_cache_update
              /\ call_stale =>
                    clock - last_cache_update
                        > CALENDAR_MAX_FETCH_INTERVAL_SECONDS

\* a call without force made exactly the maximum interval after the last
\* refresh has not fetched
C25_Witness ==
    /\ last_call.some /\ ~last_call.force_fetch
    /\ last_call.now_utc - last_call.last_cache_update
          = CALENDAR_MAX_FETCH_INTERVAL_SECONDS
    /\ last_call.fetch = "none"
    /\ last_call.last_cache_update > Epoch

\* ---------------------------------------------------------------------
\* PREPARE only when configured

\* the status map has PREPARE and the prepare window is the longer one
r_effective == r_has_prepare /\ r_prepare > r_pending

\* the prepare window the config item names, whatever its status map
r_prepare_minutes ==
    IF r_config.has_prepare THEN r_config.prepare_minutes
    ELSE DefaultPrepareMinutes

\* the config item with PREPARE taken out of its status map
r_config_disabled == [r_config EXCEPT !.statuses = @ \ {"PREPARE"}]

\* C26: get_status and the aggregator return PREPARE, and get_status a
\* transition start - prepare window other than start - pending window, only
\* if the status map has PREPARE and the prepare window is strictly longer
\* than the pending window; otherwise both return what they return with the
\* prepare status disabled.
C26_PrepareOnlyConfigured ==
    /\ r_class # NoClass =>
          /\ r_class.status = "PREPARE" => r_effective
          /\ (is_valid(c_event) /\ r_class.transition # NoTime
              /\ r_class.transition = c_event.start - r_prepare_minutes)
                => (r_effective \/ r_prepare_minutes = r_pending)
          /\ ~r_effective =>
                LET off == get_status(c_event, r_now, r_pending, r_pending,
                                      FALSE)
                IN /\ r_class.status = off.status
                   /\ r_class.transition = off.transition
    /\ r_out # NoOut =>
          /\ r_out.status = "PREPARE" => r_effective
          /\ ~r_effective =>
                r_out = resolve_status_for_calendar(r_events,
                                                    r_config_disabled, r_now)

\* an event still before its pending window is classified under a config
\* item whose status map has PREPARE and whose prepare window is the shorter
\* one: FREE until start - pending window
C26_Witness ==
    /\ r_class # NoClass /\ is_valid(c_event)
    /\ r_has_prepare /\ r_prepare < r_pending
    /\ c_event.start - r_pending > r_now
    /\ r_class.status = "FREE"
    /\ r_class.transition = c_event.start - r_pending

\* ---------------------------------------------------------------------
\* The order of installs

\* C27 as stated: _last_cache_update never decreases, and an install never
\* replaces a raw cache by one whose fetch began earlier.
C27_RefreshMonotonic ==
    [][\A t \in Threads :
          (pc[t] = "installing" /\ pc'[t] # "installing")
             => /\ last_cache_update' >= last_cache_update
                /\ fetch_now[t] >= last_cache_update]_vars

\* ---------------------------------------------------------------------
\* The horizon of a recomputation

\* the transition instants get_status gives for the valid events
r_transitions ==
    {x \in {get_status(r_event(i), r_now, r_pending, r_prepare,
                       r_has_prepare).transition : i \in r_valid} :
        x # NoTime}

\* a raw cache that holds the event list for every calendar
r_cache == [id \in CalendarIds |-> [items |-> r_events, fetch |-> 0]]

\* C28: with a pending window of zero or more, every transition instant
\* get_status returns for a valid event is strictly after the now it was
\* given, so the aggregator's test "transition_time > now_utc" drops none
\* and its next change is after now; the valid_until a recomputation at now
\* stores is strictly after now, so that the test of the cache check,
\* now < valid_until, holds for a call at the same instant.
C28_HorizonInFuture ==
    /\ (r_class # NoClass /\ is_valid(c_event) /\ r_pending >= 0
        /\ r_class.transition # NoTime)
          => r_class.transition > r_now
    /\ (r_out # NoOut /\ r_pending >= 0) =>
          /\ r_future = r_transitions
          /\ r_out.next_change # NoTime => r_out.next_change > r_now
          /\ r_now < new_valid_until(r_cache, r_now)

\* with a pending window of zero the aggregator has answered FREE with a
\* next change at the very next instant, the start of an event, and a
\* recomputation over the same events stores a valid_until after now
C28_Witness ==
    /\ r_out # NoOut /\ r_pending = 0
    /\ r_out.status = "FREE"
    /\ r_transitions # {}
    /\ r_out.next_change = r_now + Microsecond
    /\ \E i \in r_valid : r_event(i).start = r_now + Microsecond
    /\ new_valid_until(r_cache, r_now) > r_now

\* ---------------------------------------------------------------------
\* The rate limit of the manual refresh

\* C29 as stated: the requests the two handlers accepted last, each of which
\* goes on to the forced fetch and to set(), were taken at instants at least
\* CALENDAR_MIN_REFRESH_INTERVAL apart.
C29_RateLimit ==
    \A h \in Handlers : \A g \in Handlers \ {h} :
        (accepted_at[h] # NoTime /\ accepted_at[g] # NoTime
         /\ accepted_at[h] >= accepted_at[g])
            => accepted_at[h] - accepted_at[g]
                  >= CALENDAR_MIN_REFRESH_INTERVAL

====
